---- MODULE Spec2Model ----
(***************************************************************************)
(* The image editor's version store (zustand store with the persist        *)
(* middleware): the version list, the cursor, the branch root, the flags,  *)
(* the localStorage snapshot, and the asynchronous addVersion /            *)
(* deleteVersion calls with their remote upload and delete requests.       *)
(*                                                                         *)
(* An id `v${Date.now()}` is modelled by the clock reading itself, null /  *)
(* undefined / '' ids by NoId, an image URL by its scheme and path, and a  *)
(* blob path `images/<versionId>/<type>-<server time>.jpg` by the tuple    *)
(* <<versionId, type, server time>>.  Browser and API routes read one      *)
(* clock.                                                                  *)
(***************************************************************************)
EXTENDS Integers, Sequences, FiniteSets, TLC

\* ---------------------------------------------------------------- bounds
MaxVersions == 2
MaxClock == 2
MaxCalls == 2
MaxChain == 3
MaxDeletes == 1

\* ------------------------------------------------------------ vocabulary
NoId == 0
Diverges == -1
NoKey == <<>>
NoError == "null"

VersionTypes == {"upload", "flux", "color", "crop", "metadata"}
DraftTypes == {"upload", "crop"}

BlobUrl == [scheme |-> "blob", path |-> NoKey]
DataUrl == [scheme |-> "data", path |-> NoKey]
ExternalKey == <<NoId, "upload", 0>>

DateOf(ms) == [rep |-> "Date", ms |-> ms]
IsoOf(ms) == [rep |-> "string", ms |-> ms]

NoDraft == [type |-> "", imageUrl |-> DataUrl, azureBlobPath |-> NoKey, parent |-> NoId]
NoNode == [id |-> NoId, type |-> "", timestamp |-> DateOf(0), imageUrl |-> DataUrl,
           azureBlobPath |-> NoKey, parent |-> NoId]
IdleCall == [op |-> "idle", nv |-> NoNode, vid |-> NoId]

VARIABLES
    versions,        \* ImageEditorState.versions
    currentVersion,  \* ImageEditorState.currentVersion
    branchRootId,    \* ImageEditorState.branchRootId
    isProcessing,    \* ImageEditorState.isProcessing
    error,           \* ImageEditorState.error
    isHydrated,      \* ImageEditorState.isHydrated
    persisted,       \* the 'image-editor-storage' item of localStorage
    hpc,             \* position of the rehydration of this process
    calls,           \* addVersion / deleteVersion calls suspended at an await
    now,             \* the reading of Date.now()
    configured,      \* AzureStorageService.isConfigured on the server
    last             \* the operation that made the last step, with its inputs

vars == <<versions, currentVersion, branchRootId, isProcessing, error, isHydrated,
          persisted, hpc, calls, now, configured, last>>

\* --------------------------------------------------------------- helpers
StartsWithBlob(url) == url.scheme = "blob"

Slots == 1..MaxCalls
Range(s) == {s[i] : i \in 1..Len(s)}
Ids(vs) == {vs[i].id : i \in 1..Len(vs)}
InFlight(op) == {s \in Slots : calls[s].op = op}
Ready == hpc \in {"done", "failed"}

\* versions.find(v => v.id === id)
Find(vs, id) ==
    IF \E i \in 1..Len(vs) : vs[i].id = id
    THEN vs[CHOOSE i \in 1..Len(vs) : vs[i].id = id /\ \A j \in 1..(i - 1) : vs[j].id # id]
    ELSE NoNode

\* new Map(versions.map(v => [v.id, v])).get(id): a later entry replaces an earlier one
idToVersion(vs, id) ==
    IF \E i \in 1..Len(vs) : vs[i].id = id
    THEN vs[CHOOSE i \in 1..Len(vs) : vs[i].id = id /\ \A j \in (i + 1)..Len(vs) : vs[j].id # id]
    ELSE NoNode

LastOp(op, vid, draft, upload) ==
    [op |-> op, vid |-> vid, draft |-> draft, upload |-> upload]

\* JSON.stringify of the partialized state: a Date is written as its ISO string
Serialize(vs) == [i \in 1..Len(vs) |-> [vs[i] EXCEPT !.timestamp = IsoOf(@.ms)]]

\* mutant: the stored item leaves the branch root out
partializeNoBranch(vs, cur, br) ==
    [status |-> "ok", versions |-> Serialize(vs), currentVersion |-> cur, branchRootId |-> NoId]

\* persist.partialize, written through to localStorage on every set()
partialize(vs, cur, br) ==
    [status |-> "ok", versions |-> Serialize(vs), currentVersion |-> cur, branchRootId |-> br]

AbsentItem == [status |-> "absent", versions |-> <<>>, currentVersion |-> NoId, branchRootId |-> NoId]
CorruptItem == [status |-> "corrupt", versions |-> <<>>, currentVersion |-> NoId, branchRootId |-> NoId]

\* ----------------------------------------------------------- read surface
getCurrentVersion(vs, cur) == Find(vs, cur)

getVersionHistory(vs) == vs

\* while (node.parent && idToVersion.get(node.parent)) node = idToVersion.get(node.parent)
\* A walk that takes more steps than the map has entries has entered a cycle
\* and never leaves the loop: the result is then Diverges.
RECURSIVE WalkToRoot(_, _, _)
WalkToRoot(vs, node, fuel) ==
    IF node.parent # NoId /\ idToVersion(vs, node.parent).id # NoId
    THEN IF fuel = 0 THEN Diverges
         ELSE WalkToRoot(vs, idToVersion(vs, node.parent), fuel - 1)
    ELSE node.id

\* mutant: the cursor's chain is consulted first, the branch root only without a cursor
getCurrentRootIdCursorFirst(vs, cur, br) ==
    IF cur # NoId /\ idToVersion(vs, cur).id # NoId
    THEN WalkToRoot(vs, idToVersion(vs, cur), Len(vs))
    ELSE br

\* if (branchRootId) return branchRootId; otherwise the walk from the cursor's node
getCurrentRootId(vs, cur, br) ==
    IF br # NoId THEN br
    ELSE IF cur = NoId THEN NoId
    ELSE IF idToVersion(vs, cur).id = NoId THEN NoId
    ELSE WalkToRoot(vs, idToVersion(vs, cur), Len(vs))

hasSameRoot(vs, version, rootId) == WalkToRoot(vs, version, Len(vs)) = rootId

\* Array.prototype.sort with (a, b) => ta - tb: stable, ascending by time
InsertByTime(s, x) ==
    LET k == Cardinality({i \in 1..Len(s) : s[i].timestamp.ms <= x.timestamp.ms})
    IN SubSeq(s, 1, k) \o <<x>> \o SubSeq(s, k + 1, Len(s))

RECURSIVE SortByTime(_)
SortByTime(s) ==
    IF Len(s) <= 1 THEN s
    ELSE InsertByTime(SortByTime(SubSeq(s, 1, Len(s) - 1)), s[Len(s)])

\* returns = FALSE when one of the root walks never terminates
getCurrentVersionHistory(vs, cur, br) ==
    LET rootId == getCurrentRootId(vs, cur, br)
        loops == \E i \in 1..Len(vs) : WalkToRoot(vs, vs[i], Len(vs)) = Diverges
    IN IF rootId = Diverges THEN [returns |-> FALSE, value |-> <<>>]
       ELSE IF rootId = NoId THEN [returns |-> TRUE, value |-> <<>>]
       ELSE IF loops THEN [returns |-> FALSE, value |-> <<>>]
       ELSE [returns |-> TRUE,
             value |-> SortByTime(SelectSeq(vs, LAMBDA v : hasSameRoot(vs, v, rootId)))]

\* ------------------------------------------------------------- addVersion
\* const newVersion = { ...version, id: `v${Date.now()}`, timestamp: new Date() }
NewVersion(draft, t) ==
    [id |-> t, type |-> draft.type, timestamp |-> DateOf(t), imageUrl |-> draft.imageUrl,
     azureBlobPath |-> draft.azureBlobPath, parent |-> draft.parent]

DraftOf(nv) ==
    [type |-> nv.type, imageUrl |-> nv.imageUrl, azureBlobPath |-> nv.azureBlobPath,
     parent |-> nv.parent]

\* AzureStorageService.generateFilename(versionId, type) at server time st
generateFilename(versionId, type, st) == <<versionId, type, st>>

\* mutant: the route without its isAzureConfigured() check
UploadRouteUnchecked(versionId, type, st, put) ==
    IF put = "throws" THEN [ok |-> FALSE, azureUrl |-> DataUrl, azureBlobPath |-> NoKey]
    ELSE [ok |-> TRUE,
          azureUrl |-> [scheme |-> "https", path |-> generateFilename(versionId, type, st)],
          azureBlobPath |-> generateFilename(versionId, type, st)]

\* POST /api/upload-version: 500 when storage is not configured or the upload
\* throws, otherwise the URL and the blob path of the stored image
UploadRoute(versionId, type, st, put) ==
    IF ~configured THEN [ok |-> FALSE, azureUrl |-> DataUrl, azureBlobPath |-> NoKey]
    ELSE IF put = "throws" THEN [ok |-> FALSE, azureUrl |-> DataUrl, azureBlobPath |-> NoKey]
    ELSE [ok |-> TRUE,
          azureUrl |-> [scheme |-> "https", path |-> generateFilename(versionId, type, st)],
          azureBlobPath |-> generateFilename(versionId, type, st)]

\* mutant: the blob path is recorded but the image URL stays the draft's
MaterializedKeyOnly(nv, response) ==
    IF response.ok
    THEN [nv EXCEPT !.azureBlobPath = response.azureBlobPath]
    ELSE nv

\* mutant: the answer is applied without looking at uploadResponse.ok
MaterializedUnchecked(nv, response) ==
    [nv EXCEPT !.imageUrl = response.azureUrl, !.azureBlobPath = response.azureBlobPath]

\* the body of `if (uploadResponse.ok) { ... }`
Materialized(nv, response) ==
    IF response.ok
    THEN [nv EXCEPT !.imageUrl = response.azureUrl, !.azureBlobPath = response.azureBlobPath]
    ELSE nv

\* mutant: every image is uploaded, whatever its URL
NeedsUploadAlways(nv) == TRUE

\* if (newVersion.imageUrl.startsWith('blob:')): only then is an upload attempted
NeedsUpload(nv) == StartsWithBlob(nv.imageUrl)

\* mutant: the commit files the node by its creation time
CommitVersionByTime(nv) ==
    /\ versions' = InsertByTime(versions, nv)
    /\ currentVersion' = nv.id
    /\ error' = NoError
    /\ persisted' = partialize(versions', currentVersion', branchRootId)
    /\ UNCHANGED <<branchRootId, isProcessing, isHydrated, hpc, now, configured>>

\* mutant: the commit appends the node but leaves the cursor where it was
CommitVersionKeepsCursor(nv) ==
    /\ versions' = Append(versions, nv)
    /\ currentVersion' = currentVersion
    /\ error' = NoError
    /\ persisted' = partialize(versions', currentVersion', branchRootId)
    /\ UNCHANGED <<branchRootId, isProcessing, isHydrated, hpc, now, configured>>

\* set((state) => ({ versions: [...state.versions, newVersion],
\*                   currentVersion: newVersion.id, error: null }))
CommitVersion(nv) ==
    /\ versions' = Append(versions, nv)
    /\ currentVersion' = nv.id
    /\ error' = NoError
    /\ persisted' = partialize(versions', currentVersion', branchRootId)
    /\ UNCHANGED <<branchRootId, isProcessing, isHydrated, hpc, now, configured>>

\* The drafts the pages build: an upload without parent (app/page.tsx), an edit
\* whose parent is the current version, with a fresh blob: or data: image or the
\* current version's own image (the metadata page).  fresh is the set of new
\* image URLs, keys the set of blob paths a draft may carry: the pages pass
\* none, the store accepts one.
Drafts(fresh, keys) ==
    {d \in [type : DraftTypes,
            imageUrl : fresh \cup {getCurrentVersion(versions, currentVersion).imageUrl},
            azureBlobPath : keys,
            parent : {NoId, getCurrentVersion(versions, currentVersion).id}] :
        d.type = IF d.parent = NoId THEN "upload" ELSE "crop"}

\* the model stops adding when n versions exist or are on their way
Room(n) == Len(versions) + Cardinality(InFlight("add")) < n

\* the focused models stop starting remote deletes when n are pending
DeleteRoom(n) == Cardinality(InFlight("del")) < n

FreeSlot == CHOOSE s \in Slots : calls[s].op = "idle" /\ \A r \in Slots : calls[r].op = "idle" => s <= r

\* addVersion of a draft whose image URL is not a blob: URL: no await is reached
AddVersionDirect(draft) ==
    /\ Ready
    /\ ~NeedsUpload(NewVersion(draft, now))
    /\ CommitVersion(NewVersion(draft, now))
    /\ last' = LastOp("addVersion", now, draft, "none")
    /\ UNCHANGED calls

\* addVersion of a blob: draft up to its first await (the fetch of the blob)
AddVersionStart(draft) ==
    /\ Ready
    /\ NeedsUpload(NewVersion(draft, now))
    /\ \E s \in Slots : calls[s].op = "idle"
    /\ calls' = [calls EXCEPT ![FreeSlot] = [op |-> "add", nv |-> NewVersion(draft, now), vid |-> now]]
    /\ last' = LastOp("addVersionStart", now, draft, "pending")
    /\ UNCHANGED <<versions, currentVersion, branchRootId, isProcessing, error, isHydrated,
                   persisted, hpc, now, configured>>

\* the upload settles: an exception inside the inner try, a non-OK answer, or OK
AddVersionFinish(s, net, put) ==
    /\ calls[s].op = "add"
    /\ LET nv == calls[s].nv
           response == UploadRoute(nv.id, nv.type, now, put)
           node == IF net = "throws" THEN nv ELSE Materialized(nv, response)
           upload == IF net = "throws" THEN "throws" ELSE IF response.ok THEN "ok" ELSE "notOk"
       IN /\ CommitVersion(node)
          /\ last' = LastOp("addVersion", nv.id, DraftOf(nv), upload)
    /\ calls' = [calls EXCEPT ![s] = IdleCall]

Tick ==
    /\ now < MaxClock
    /\ now' = now + 1
    /\ last' = LastOp("tick", NoId, NoDraft, "none")
    /\ UNCHANGED <<versions, currentVersion, branchRootId, isProcessing, error, isHydrated,
                   persisted, hpc, calls, configured>>

\* ------------------------------------------------------- plain mutators
\* set({ currentVersion: versionId })
setCurrentVersion(versionId) ==
    /\ Ready
    /\ currentVersion' = versionId
    /\ persisted' = partialize(versions, currentVersion', branchRootId)
    /\ last' = LastOp("setCurrentVersion", versionId, NoDraft, "none")
    /\ UNCHANGED <<versions, branchRootId, isProcessing, error, isHydrated, hpc, calls, now,
                   configured>>

\* set({ branchRootId: versionId || null })
setBranchRoot(versionId) ==
    /\ Ready
    /\ branchRootId' = versionId
    /\ persisted' = partialize(versions, currentVersion, branchRootId')
    /\ last' = LastOp("setBranchRoot", versionId, NoDraft, "none")
    /\ UNCHANGED <<versions, currentVersion, isProcessing, error, isHydrated, hpc, calls, now,
                   configured>>

\* set({ isProcessing: processing })
setProcessing(processing) ==
    /\ Ready
    /\ isProcessing' = processing
    /\ persisted' = partialize(versions, currentVersion, branchRootId)
    /\ last' = LastOp("setProcessing", NoId, NoDraft, "none")
    /\ UNCHANGED <<versions, currentVersion, branchRootId, error, isHydrated, hpc, calls, now,
                   configured>>

\* set({ error })
setError(e) ==
    /\ Ready
    /\ error' = e
    /\ persisted' = partialize(versions, currentVersion, branchRootId)
    /\ last' = LastOp("setError", NoId, NoDraft, "none")
    /\ UNCHANGED <<versions, currentVersion, branchRootId, isProcessing, isHydrated, hpc, calls,
                   now, configured>>

\* set({ versions: [], currentVersion: null, error: null, branchRootId: null })
ClearState ==
    /\ versions' = <<>>
    /\ currentVersion' = NoId
    /\ error' = NoError
    /\ branchRootId' = NoId
    /\ persisted' = partialize(versions', currentVersion', branchRootId')

\* mutant: the reset also ends the processing flag
clearVersionsEndsProcessing ==
    /\ Ready
    /\ ClearState
    /\ isProcessing' = FALSE
    /\ last' = LastOp("clearVersions", NoId, NoDraft, "none")
    /\ UNCHANGED <<isHydrated, hpc, calls, now, configured>>

clearVersions ==
    /\ Ready
    /\ ClearState
    /\ last' = LastOp("clearVersions", NoId, NoDraft, "none")
    /\ UNCHANGED <<isProcessing, isHydrated, hpc, calls, now, configured>>

\* ---------------------------------------------------------- deleteVersion
\* if (version?.azureBlobPath): only then is the remote delete requested
NeedsRemoteDelete(vs, versionId) == Find(vs, versionId).azureBlobPath # NoKey

\* mutant: the removal resets the cursor whichever node is removed
RemoveVersionResetsCursor(versionId) ==
    /\ versions' = SelectSeq(versions, LAMBDA v : v.id # versionId)
    /\ currentVersion' = NoId
    /\ persisted' = partialize(versions', currentVersion', branchRootId)
    /\ UNCHANGED <<branchRootId, isProcessing, error, isHydrated, hpc, now, configured>>

\* set((state) => ({ versions: state.versions.filter(v => v.id !== versionId),
\*   currentVersion: state.currentVersion === versionId ? null : state.currentVersion }))
RemoveVersion(versionId) ==
    /\ versions' = SelectSeq(versions, LAMBDA v : v.id # versionId)
    /\ currentVersion' = IF currentVersion = versionId THEN NoId ELSE currentVersion
    /\ persisted' = partialize(versions', currentVersion', branchRootId)
    /\ UNCHANGED <<branchRootId, isProcessing, error, isHydrated, hpc, now, configured>>

\* DELETE /api/azure-storage: 500 when deleteImage throws (not configured, blob
\* missing, access denied), otherwise success
DeleteRoute(del) == IF ~configured \/ del = "throws" THEN "notOk" ELSE "ok"

\* deleteVersion of an id whose node has no blob path (or of an unknown id)
DeleteVersionDirect(versionId) ==
    /\ Ready
    /\ ~NeedsRemoteDelete(versions, versionId)
    /\ RemoveVersion(versionId)
    /\ last' = LastOp("deleteVersion", versionId, NoDraft, "none")
    /\ UNCHANGED calls

\* deleteVersion up to the await of the remote delete request
DeleteVersionStart(versionId) ==
    /\ Ready
    /\ NeedsRemoteDelete(versions, versionId)
    /\ \E s \in Slots : calls[s].op = "idle"
    /\ calls' = [calls EXCEPT ![FreeSlot] = [op |-> "del", nv |-> NoNode, vid |-> versionId]]
    /\ last' = LastOp("deleteVersionStart", versionId, NoDraft, "pending")
    /\ UNCHANGED <<versions, currentVersion, branchRootId, isProcessing, error, isHydrated,
                   persisted, hpc, now, configured>>

\* mutant: a failed remote delete reaches the outer catch, which sets the error
\* slot and skips the removal
DeleteVersionFinishFatal(s, net, del) ==
    /\ calls[s].op = "del"
    /\ IF net = "throws" \/ DeleteRoute(del) = "notOk"
       THEN /\ error' = "Failed to delete image version"
            /\ persisted' = partialize(versions, currentVersion, branchRootId)
            /\ UNCHANGED <<versions, currentVersion, branchRootId, isProcessing, isHydrated,
                           hpc, now, configured>>
       ELSE RemoveVersion(calls[s].vid)
    /\ last' = LastOp("deleteVersion", calls[s].vid, NoDraft,
                      IF net = "throws" THEN "throws" ELSE DeleteRoute(del))
    /\ calls' = [calls EXCEPT ![s] = IdleCall]

\* the remote delete settles (exception, non-OK or OK): the node is removed
DeleteVersionFinish(s, net, del) ==
    /\ calls[s].op = "del"
    /\ RemoveVersion(calls[s].vid)
    /\ last' = LastOp("deleteVersion", calls[s].vid, NoDraft,
                      IF net = "throws" THEN "throws" ELSE DeleteRoute(del))
    /\ calls' = [calls EXCEPT ![s] = IdleCall]

\* ------------------------------------------------------- read operations
\* each call returns a value and contains no set(); `last` records the call
ReadCurrentVersion ==
    /\ Ready
    /\ last' = LastOp("getCurrentVersion", getCurrentVersion(versions, currentVersion).id,
                      NoDraft, "none")
    /\ UNCHANGED <<versions, currentVersion, branchRootId, isProcessing, error, isHydrated,
                   persisted, hpc, calls, now, configured>>

ReadVersionHistory ==
    /\ Ready
    /\ last' = LastOp("getVersionHistory", Len(getVersionHistory(versions)), NoDraft, "none")
    /\ UNCHANGED <<versions, currentVersion, branchRootId, isProcessing, error, isHydrated,
                   persisted, hpc, calls, now, configured>>

\* a walk that never ends leaves the caller inside the call: "diverges"
ReadCurrentRootId ==
    /\ Ready
    /\ LET rootId == getCurrentRootId(versions, currentVersion, branchRootId)
       IN last' = LastOp("getCurrentRootId", rootId, NoDraft,
                         IF rootId = Diverges THEN "diverges" ELSE "none")
    /\ UNCHANGED <<versions, currentVersion, branchRootId, isProcessing, error, isHydrated,
                   persisted, hpc, calls, now, configured>>

\* mutant: the sort is applied to the stored array instead of the filtered copy
ReadCurrentVersionHistorySortsStore ==
    /\ Ready
    /\ versions' = SortByTime(versions)
    /\ LET history == getCurrentVersionHistory(versions, currentVersion, branchRootId)
       IN last' = LastOp("getCurrentVersionHistory", Len(history.value), NoDraft,
                         IF history.returns THEN "none" ELSE "diverges")
    /\ UNCHANGED <<currentVersion, branchRootId, isProcessing, error, isHydrated,
                   persisted, hpc, calls, now, configured>>

\* versions.filter(...) is a new array, and it is that array which sort() orders
ReadCurrentVersionHistory ==
    /\ Ready
    /\ versions' = versions
    /\ LET history == getCurrentVersionHistory(versions, currentVersion, branchRootId)
       IN last' = LastOp("getCurrentVersionHistory", Len(history.value), NoDraft,
                         IF history.returns THEN "none" ELSE "diverges")
    /\ UNCHANGED <<currentVersion, branchRootId, isProcessing, error, isHydrated,
                   persisted, hpc, calls, now, configured>>

\* --------------------------------------------------- loadVersionFromAzure
\* GET /api/azure-storage: the switch knows four actions, every other action is
\* answered with status 400; an exception of the storage service gives 500
GetActions == {"test", "config", "list", "metadata"}

GetRoute(action, get) ==
    IF action \notin GetActions THEN "notOk"
    ELSE IF get = "throws" THEN "notOk"
    ELSE "ok"

\* { ...version, imageUrl: imageData, timestamp: new Date() }
downloadedVersion(version, t) ==
    [version EXCEPT !.imageUrl = [scheme |-> "data", path |-> version.azureBlobPath],
                    !.timestamp = DateOf(t)]

\* if (!version || !version.azureBlobPath) return null
LoadVersionDirect(versionId) ==
    /\ Ready
    /\ Find(versions, versionId).azureBlobPath = NoKey
    /\ last' = LastOp("loadVersionFromAzure", versionId, NoDraft, "none")
    /\ UNCHANGED <<versions, currentVersion, branchRootId, isProcessing, error, isHydrated,
                   persisted, hpc, calls, now, configured>>

\* loadVersionFromAzure up to the await of the download request
LoadVersionStart(versionId) ==
    /\ Ready
    /\ Find(versions, versionId).azureBlobPath # NoKey
    /\ \E s \in Slots : calls[s].op = "idle"
    /\ calls' = [calls EXCEPT ![FreeSlot] =
                    [op |-> "load", nv |-> Find(versions, versionId), vid |-> versionId]]
    /\ last' = LastOp("loadVersionStart", versionId, NoDraft, "pending")
    /\ UNCHANGED <<versions, currentVersion, branchRootId, isProcessing, error, isHydrated,
                   persisted, hpc, now, configured>>

\* the request settles: the copy is returned for an OK answer, null otherwise.
\* `last` tells the null results apart: the fetch threw ("throws"), the storage
\* could not serve the object ("failed"), or the route refused a request that
\* the storage could have served ("refused")
LoadVersionFinish(s, net, get) ==
    /\ calls[s].op = "load"
    /\ LET answer == IF net = "throws" THEN "throws"
                     ELSE IF GetRoute("download", get) = "ok" THEN "ok"
                     ELSE IF get = "throws" \/ ~configured THEN "failed"
                     ELSE "refused"
       IN last' = LastOp("loadVersionFromAzure", calls[s].vid,
                         IF answer = "ok" THEN DraftOf(downloadedVersion(calls[s].nv, now))
                         ELSE NoDraft,
                         answer)
    /\ calls' = [calls EXCEPT ![s] = IdleCall]
    /\ UNCHANGED <<versions, currentVersion, branchRootId, isProcessing, error, isHydrated,
                   persisted, hpc, now, configured>>

\* ---------------------------------------------------- restart, hydration
\* the process ends; the next one constructs the store with its initial state
Restart ==
    /\ Ready
    /\ versions' = <<>>
    /\ currentVersion' = NoId
    /\ branchRootId' = NoId
    /\ isProcessing' = FALSE
    /\ error' = NoError
    /\ isHydrated' = FALSE
    /\ calls' = [s \in Slots |-> IdleCall]
    /\ hpc' = "boot"
    /\ last' = LastOp("restart", NoId, NoDraft, "none")
    /\ UNCHANGED <<persisted, now, configured>>

\* persist: the stored item is parsed and merged into the state with set()
HydrateMerge ==
    /\ hpc = "boot"
    /\ persisted.status # "corrupt"
    /\ versions' = IF persisted.status = "ok" THEN persisted.versions ELSE versions
    /\ currentVersion' = IF persisted.status = "ok" THEN persisted.currentVersion ELSE currentVersion
    /\ branchRootId' = IF persisted.status = "ok" THEN persisted.branchRootId ELSE branchRootId
    /\ persisted' = partialize(versions', currentVersion', branchRootId')
    /\ hpc' = "merged"
    /\ last' = LastOp("hydrate", NoId, NoDraft, "none")
    /\ UNCHANGED <<isProcessing, error, isHydrated, calls, now, configured>>

\* persist: the stored item cannot be parsed; the callback of onRehydrateStorage
\* is called with state === undefined and its `if (state)` body is skipped
HydrateFail ==
    /\ hpc = "boot"
    /\ persisted.status = "corrupt"
    /\ hpc' = "failed"
    /\ last' = LastOp("hydrate", NoId, NoDraft, "throws")
    /\ UNCHANGED <<versions, currentVersion, branchRootId, isProcessing, error, isHydrated,
                   persisted, calls, now, configured>>

\* onRehydrateStorage callback, first statement: state.setHydrated(true)
HydrateSetHydrated ==
    /\ hpc = "merged"
    /\ isHydrated' = TRUE
    /\ persisted' = partialize(versions, currentVersion, branchRootId)
    /\ hpc' = "flagged"
    /\ last' = LastOp("setHydrated", NoId, NoDraft, "none")
    /\ UNCHANGED <<versions, currentVersion, branchRootId, isProcessing, error, calls, now,
                   configured>>

\* mutant: the revived timestamp is the time of the hydration
ReviveTimestampsNow(vs) == [i \in 1..Len(vs) |-> [vs[i] EXCEPT !.timestamp = DateOf(now + 1)]]

\* version.timestamp = new Date(version.timestamp) for a string timestamp
ReviveTimestamps(vs) == [i \in 1..Len(vs) |-> [vs[i] EXCEPT !.timestamp = DateOf(@.ms)]]

\* mutant: the scan looks at the first version only
hasInvalidBlobUrlsFirst(vs) == Len(vs) > 0 /\ StartsWithBlob(vs[1].imageUrl)

hasInvalidBlobUrls(vs) == \E i \in 1..Len(vs) : StartsWithBlob(vs[i].imageUrl)

\* onRehydrateStorage callback, the rest: the forEach over the versions, then
\* clearVersions() when a blob: URL was seen
HydrateScan ==
    /\ hpc = "flagged"
    /\ IF hasInvalidBlobUrls(versions)
       THEN ClearState
       ELSE /\ versions' = ReviveTimestamps(versions)
            /\ UNCHANGED <<currentVersion, error, branchRootId, persisted>>
    /\ hpc' = "done"
    /\ last' = LastOp("rehydrated", NoId, NoDraft,
                      IF hasInvalidBlobUrls(versions) THEN "cleared" ELSE "none")
    /\ UNCHANGED <<isProcessing, isHydrated, calls, now, configured>>

\* ------------------------------------------------------- specifications
ErrorValues == {NoError, "Failed to upload image. Please try again."}
Outcomes == {"ok", "throws"}
AllIds == 1..MaxClock

Init ==
    /\ versions = <<>>
    /\ currentVersion = NoId
    /\ branchRootId = NoId
    /\ isProcessing = FALSE
    /\ error = NoError
    /\ isHydrated = FALSE
    /\ persisted \in {AbsentItem, CorruptItem}
    /\ hpc = "boot"
    /\ calls = [s \in Slots |-> IdleCall]
    /\ now = 1
    /\ configured \in BOOLEAN
    /\ last = LastOp("create", NoId, NoDraft, "none")

Hydrate == HydrateMerge \/ HydrateFail \/ HydrateSetHydrated \/ HydrateScan

\* the store and every mutator, calls overlapping as far as MaxCalls allows
Next ==
    \/ Tick
    \/ Room(MaxVersions) /\ \E draft \in Drafts({BlobUrl, DataUrl}, {NoKey}) : AddVersionDirect(draft)
    \/ Room(MaxVersions) /\ \E draft \in Drafts({BlobUrl, DataUrl}, {NoKey}) : AddVersionStart(draft)
    \/ \E s \in Slots, net \in Outcomes, put \in Outcomes : AddVersionFinish(s, net, put)
    \/ \E id \in AllIds : setCurrentVersion(id)
    \/ \E id \in AllIds \cup {NoId} : setBranchRoot(id)
    \/ clearVersions
    \/ \E id \in AllIds : DeleteVersionDirect(id)
    \/ \E id \in AllIds : DeleteVersionStart(id)
    \/ \E s \in Slots, net \in Outcomes, del \in Outcomes : DeleteVersionFinish(s, net, del)
    \/ Hydrate

Spec == Init /\ [][Next]_vars

\* addVersion alone, with every draft the store accepts
NextAdd ==
    \/ Tick
    \/ Room(MaxVersions) /\ \E draft \in Drafts({BlobUrl, DataUrl}, {NoKey, ExternalKey}) : AddVersionDirect(draft)
    \/ Room(MaxVersions) /\ \E draft \in Drafts({BlobUrl, DataUrl}, {NoKey, ExternalKey}) : AddVersionStart(draft)
    \/ \E s \in Slots, net \in Outcomes, put \in Outcomes : AddVersionFinish(s, net, put)
    \/ clearVersions
    \/ Hydrate

SpecAdd == Init /\ [][NextAdd]_vars

\* restarts of the process: the store is rebuilt from the localStorage item
NextHydrate ==
    \/ Tick
    \/ Room(MaxVersions) /\ \E draft \in Drafts({BlobUrl, DataUrl}, {NoKey}) : AddVersionDirect(draft)
    \/ Room(MaxVersions) /\ \E draft \in Drafts({BlobUrl, DataUrl}, {NoKey}) : AddVersionStart(draft)
    \/ \E s \in Slots, net \in Outcomes, put \in Outcomes : AddVersionFinish(s, net, put)
    \/ \E id \in AllIds \cup {NoId} : setBranchRoot(id)
    \/ \E b \in BOOLEAN : setProcessing(b)
    \/ \E e \in ErrorValues : setError(e)
    \/ Restart
    \/ Hydrate

SpecHydrate == Init /\ [][NextHydrate]_vars

\* deletions among additions and cursor moves
NextDelete ==
    \/ Tick
    \/ Room(MaxVersions) /\ \E draft \in Drafts({DataUrl}, {NoKey, ExternalKey}) : AddVersionDirect(draft)
    \/ \E id \in AllIds : setCurrentVersion(id)
    \/ \E id \in AllIds : DeleteVersionDirect(id)
    \/ DeleteRoom(MaxDeletes) /\ \E id \in AllIds : DeleteVersionStart(id)
    \/ \E s \in Slots, net \in Outcomes, del \in Outcomes : DeleteVersionFinish(s, net, del)
    \/ Hydrate

SpecDelete == Init /\ [][NextDelete]_vars

\* an awaited chain: each draft's parent is the node added just before it
ChainDrafts ==
    {d \in Drafts({BlobUrl, DataUrl}, {NoKey}) :
        d.parent = IF versions = <<>> THEN NoId ELSE versions[Len(versions)].id}

NextChain ==
    \/ Tick
    \/ Room(MaxChain) /\ InFlight("add") = {} /\ \E draft \in ChainDrafts : AddVersionDirect(draft)
    \/ Room(MaxChain) /\ InFlight("add") = {} /\ \E draft \in ChainDrafts : AddVersionStart(draft)
    \/ \E s \in Slots, net \in Outcomes, put \in Outcomes : AddVersionFinish(s, net, put)
    \/ Hydrate

SpecChain == Init /\ [][NextChain]_vars

\* the branch root among additions, cursor moves, deletions and resets
NextBranch ==
    \/ Tick
    \/ Room(MaxVersions) /\ \E draft \in Drafts({DataUrl}, {NoKey}) : AddVersionDirect(draft)
    \/ \E id \in AllIds : setCurrentVersion(id)
    \/ \E id \in AllIds \cup {NoId} : setBranchRoot(id)
    \/ \E id \in AllIds : DeleteVersionDirect(id)
    \/ clearVersions
    \/ Hydrate

SpecBranch == Init /\ [][NextBranch]_vars

\* resets among additions, pending remote deletes and the processing flag
NextClear ==
    \/ Tick
    \/ Room(MaxVersions) /\ \E draft \in Drafts({DataUrl}, {NoKey, ExternalKey}) : AddVersionDirect(draft)
    \/ \E id \in AllIds \cup {NoId} : setBranchRoot(id)
    \/ \E b \in BOOLEAN : setProcessing(b)
    \/ DeleteRoom(MaxDeletes) /\ \E id \in AllIds : DeleteVersionStart(id)
    \/ \E s \in Slots, net \in Outcomes, del \in Outcomes : DeleteVersionFinish(s, net, del)
    \/ clearVersions
    \/ Hydrate

SpecClear == Init /\ [][NextClear]_vars

\* the read operations among additions whose uploads overlap
NextRead ==
    \/ Tick
    \/ Room(MaxVersions) /\ \E draft \in Drafts({BlobUrl}, {NoKey}) : AddVersionStart(draft)
    \/ \E s \in Slots, net \in Outcomes, put \in Outcomes : AddVersionFinish(s, net, put)
    \/ ReadCurrentVersion
    \/ ReadVersionHistory
    \/ ReadCurrentRootId
    \/ ReadCurrentVersionHistory
    \/ \E id \in AllIds : LoadVersionDirect(id)
    \/ \E id \in AllIds : LoadVersionStart(id)
    \/ \E s \in Slots, net \in Outcomes, get \in Outcomes : LoadVersionFinish(s, net, get)
    \/ Hydrate

SpecRead == Init /\ [][NextRead]_vars

\* committed nodes under every later operation, restarts included; the
\* additions are awaited one by one
NextFrame ==
    \/ Tick
    \/ Room(MaxVersions) /\ InFlight("add") = {} /\ \E draft \in Drafts({BlobUrl}, {NoKey}) : AddVersionStart(draft)
    \/ \E s \in Slots, net \in Outcomes, put \in Outcomes : AddVersionFinish(s, net, put)
    \/ \E id \in AllIds : setCurrentVersion(id)
    \/ \E id \in AllIds \cup {NoId} : setBranchRoot(id)
    \/ \E id \in AllIds : DeleteVersionDirect(id)
    \/ Restart
    \/ Hydrate

SpecFrame == Init /\ [][NextFrame]_vars

\* ================================================================ claims
LastVersion == versions[Len(versions)]
AddReturned == last.op = "addVersion"
UploadFailed == last.upload \in {"throws", "notOk"}
HasBlob(vs) == \E i \in 1..Len(vs) : vs[i].imageUrl.scheme = "blob"
Count(s, x) == Cardinality({i \in 1..Len(s) : s[i] = x})

\* C1: when addVersion returns, the node built from the draft, with the id and
\* creation time the store assigned, is in the version list and is the cursor,
\* for every draft and every outcome of the upload.
C1_AddedNodeIsCursor ==
    AddReturned =>
        /\ versions # <<>>
        /\ LastVersion.id = last.vid
        /\ LastVersion.timestamp = DateOf(last.vid)
        /\ LastVersion.type = last.draft.type
        /\ LastVersion.parent = last.draft.parent
        /\ last.upload # "ok" => LastVersion.imageUrl = last.draft.imageUrl
        /\ currentVersion = LastVersion.id

C1_Witness ==
    /\ AddReturned
    /\ last.upload = "ok"
    /\ Len(versions) = 2
    /\ versions[1].imageUrl.scheme = "blob"

C3_UnconfiguredKeepsImage ==
    (AddReturned /\ ~configured) =>
        /\ versions # <<>>
        /\ LastVersion.id = last.vid
        /\ currentVersion = LastVersion.id
        /\ LastVersion.imageUrl = last.draft.imageUrl

C3_Witness ==
    /\ AddReturned
    /\ ~configured
    /\ last.upload = "notOk"
    /\ last.draft.imageUrl = BlobUrl

\* C4: a draft whose image URL is not a blob: URL never causes an upload request,
\* and its image URL and blob path are committed as given, however often such a
\* draft is added.
C4_DurableDraftNoUpload ==
    /\ \A s \in Slots : calls[s].op = "add" => calls[s].nv.imageUrl.scheme = "blob"
    /\ (AddReturned /\ last.draft.imageUrl.scheme # "blob") =>
          /\ last.upload = "none"
          /\ versions # <<>>
          /\ LastVersion.imageUrl = last.draft.imageUrl
          /\ LastVersion.azureBlobPath = last.draft.azureBlobPath

C4_Witness ==
    /\ AddReturned
    /\ last.draft.imageUrl.scheme = "https"
    /\ last.draft.azureBlobPath = ExternalKey
    /\ Len(versions) = 2
    /\ versions[1].imageUrl = versions[2].imageUrl

\* C5: after an awaited chain of addVersion calls (first draft without parent,
\* every later draft's parent the node added before it) getCurrentRootId() is
\* the id of the first node.
C5_ChainRootIsFirst ==
    (Ready /\ versions # <<>> /\ InFlight("add") = {}) =>
        getCurrentRootId(versions, currentVersion, branchRootId) = versions[1].id

\* C6: getCurrentVersionHistory() returns exactly the nodes whose parent walk
\* ends at getCurrentRootId(), in ascending order of creation time, and the
\* empty list when getCurrentRootId() is null.
C6_HistoryIsTheBranch ==
    LET rootId == getCurrentRootId(versions, currentVersion, branchRootId)
        history == getCurrentVersionHistory(versions, currentVersion, branchRootId)
        h == history.value
    IN /\ rootId # Diverges
       /\ history.returns
       /\ rootId = NoId => h = <<>>
       /\ \A i \in 1..(Len(h) - 1) : h[i].timestamp.ms <= h[i + 1].timestamp.ms
       /\ \A v \in Range(versions) \cup Range(h) :
             Count(h, v) = IF WalkToRoot(versions, v, Len(versions)) = rootId /\ rootId # NoId
                           THEN Count(versions, v) ELSE 0

\* C7: when deleteVersion(id) completes no node with that id is left, the
\* cursor lookup gives null if id was the cursor, the cursor is unchanged if it
\* was not, and the other nodes stay in their order.
C7_DeleteRemovesNode ==
    [][last'.op = "deleteVersion" =>
          /\ \A i \in 1..Len(versions') : versions'[i].id # last'.vid
          /\ currentVersion = last'.vid => getCurrentVersion(versions', currentVersion') = NoNode
          /\ currentVersion # last'.vid => currentVersion' = currentVersion
          /\ versions' = SelectSeq(versions, LAMBDA v : v.id # last'.vid)]_vars

C7_Witness ==
    /\ last.op = "deleteVersion"
    /\ last.upload \in {"ok", "notOk", "throws"}
    /\ currentVersion # NoId
    /\ currentVersion # last.vid
    /\ Len(versions) = 1

\* C8: hydrating a stored item with at least one blob: image URL ends with an
\* empty version list, no cursor and no branch root, whatever else is stored.
C8_BlobItemIsPurged ==
    [][(hpc = "flagged" /\ hpc' = "done" /\ HasBlob(persisted.versions)) =>
          /\ versions' = <<>>
          /\ currentVersion' = NoId
          /\ branchRootId' = NoId]_vars

C8_Witness ==
    /\ hpc = "flagged"
    /\ Len(persisted.versions) = 2
    /\ persisted.versions[1].imageUrl.scheme = "https"
    /\ persisted.versions[2].imageUrl.scheme = "blob"
    /\ persisted.branchRootId # NoId

\* C9: isHydrated is never true while the hydration has yet to scan the loaded
\* versions and purge them for a blob: image URL.
C9_HydratedAfterScan ==
    isHydrated => ~(hpc \in {"merged", "flagged"} /\ HasBlob(versions))

\* C10: a stored item that cannot be parsed is handled like one with invalid
\* blob URLs: empty version list, no cursor, isHydrated true.
C10_CorruptItemIsReset ==
    (last.op = "hydrate" /\ last.upload = "throws") =>
        /\ versions = <<>>
        /\ currentVersion = NoId
        /\ isHydrated

\* C11: setCurrentVersion(id) with an id that no node of the version list has
\* changes nothing: the cursor field, the version list and the branch root stay.
C11_UnknownIdKeepsCursor ==
    [][(last'.op = "setCurrentVersion" /\ last'.vid \notin Ids(versions)) =>
          /\ currentVersion' = currentVersion
          /\ versions' = versions
          /\ branchRootId' = branchRootId]_vars

\* C12: once setBranchRoot(id) has set a branch root, getCurrentRootId() is
\* that id wherever the cursor is, after every step that is neither another
\* setBranchRoot nor clearVersions.
C12_BranchRootWins ==
    [][/\ (last'.op = "setBranchRoot" /\ last'.vid # NoId) =>
             getCurrentRootId(versions', currentVersion', branchRootId') = last'.vid
       /\ (branchRootId # NoId /\ last'.op \notin {"setBranchRoot", "clearVersions"}) =>
             getCurrentRootId(versions', currentVersion', branchRootId') = branchRootId]_vars

C12_Witness ==
    /\ last.op = "setCurrentVersion"
    /\ Len(versions) = 2
    /\ versions[1].parent = NoId
    /\ versions[2].parent = NoId
    /\ versions[1].id # versions[2].id
    /\ branchRootId = versions[1].id
    /\ currentVersion = versions[2].id

\* C13: no two nodes of the version list have the same id, whichever way the
\* addVersion calls that made them overlapped.
C13_IdsAreUnique ==
    \A i, j \in 1..Len(versions) : i # j => versions[i].id # versions[j].id

\* C14: when the remote delete of deleteVersion(id) fails (exception or non-OK
\* answer), deleteVersion still returns with no node of that id left and with the
\* error slot as it was.
C14_FailedRemoteDeleteStillRemoves ==
    [][(last'.op = "deleteVersion" /\ last'.upload \in {"notOk", "throws"}) =>
          /\ last'.vid \notin Ids(versions')
          /\ error' = error
          /\ error' # "Failed to delete image version"]_vars

C14_Witness ==
    /\ last.op = "deleteVersion"
    /\ last.upload = "notOk"
    /\ configured
    /\ Len(versions) = 1
    /\ currentVersion = NoId

\* C15: clearVersions() empties the version list, nulls the cursor and the
\* branch root, starts no remote request and leaves the pending ones alone, and
\* keeps isHydrated and isProcessing.
C15_ClearIsLocal ==
    [][last'.op = "clearVersions" =>
          /\ versions' = <<>>
          /\ currentVersion' = NoId
          /\ branchRootId' = NoId
          /\ calls' = calls
          /\ isHydrated' = isHydrated
          /\ isProcessing' = isProcessing]_vars

C15_Witness ==
    /\ last.op = "clearVersions"
    /\ isProcessing
    /\ isHydrated
    /\ InFlight("del") # {}

\* C16: every commit of addVersion appends its node to the version list as it
\* is at that moment and makes it the cursor, so overlapping calls are listed by
\* getVersionHistory() in the order of their commits.
C16_CommitOrder ==
    [][last'.op = "addVersion" =>
          /\ Len(versions') = Len(versions) + 1
          /\ getVersionHistory(versions') =
                Append(getVersionHistory(versions), versions'[Len(versions')])
          /\ versions'[Len(versions')].id = last'.vid
          /\ currentVersion' = last'.vid]_vars

\* two uploads in flight together, the call made later committed first
C16_Witness ==
    /\ AddReturned
    /\ last.upload = "ok"
    /\ Len(versions) = 2
    /\ \A i \in 1..2 : versions[i].azureBlobPath \notin {NoKey, ExternalKey}
    /\ versions[1].timestamp.ms > versions[2].timestamp.ms
    /\ versions[1].azureBlobPath[3] = versions[1].timestamp.ms
    /\ currentVersion = versions[2].id

\* C17: when addVersion has committed a node with a parent, a node with the
\* parent's id is in the version list, and no parent walk from a node of the
\* list comes back to a node it has visited.
C17_ParentGraphIsForest ==
    /\ (AddReturned /\ last.draft.parent # NoId) => last.draft.parent \in Ids(versions)
    /\ \A i \in 1..Len(versions) : WalkToRoot(versions, versions[i], Len(versions)) # Diverges

\* C18: getCurrentRootId() and getCurrentVersionHistory() return in every
\* state: their root walks end.
C18_RootWalkTerminates ==
    /\ getCurrentRootId(versions, currentVersion, branchRootId) # Diverges
    /\ getCurrentVersionHistory(versions, currentVersion, branchRootId).returns

\* C19: deleteVersion(id) removes a node that has a blob path only after its
\* remote delete request has settled, and starts no request for an id whose
\* nodes have no blob path or that no node has.
C19_RemoteDeleteBeforeRemoval ==
    [][/\ (last'.op = "deleteVersion" /\
           \E i \in 1..Len(versions) :
               versions[i].id = last'.vid /\ versions[i].azureBlobPath # NoKey) =>
             last'.upload \in {"ok", "notOk", "throws"}
       /\ last'.op = "deleteVersionStart" =>
             /\ versions' = versions
             /\ \E i \in 1..Len(versions) :
                   versions[i].id = last'.vid /\ versions[i].azureBlobPath # NoKey]_vars

\* C20: deleteVersion(id) with an id that no node has changes nothing: version
\* list, cursor, branch root and error slot stay and no request is started.
C20_UnknownIdDeletesNothing ==
    [][(last'.op = "deleteVersion" /\ last'.upload = "none" /\ last'.vid \notin Ids(versions)) =>
          /\ versions' = versions
          /\ currentVersion' = currentVersion
          /\ branchRootId' = branchRootId
          /\ error' = error
          /\ calls' = calls]_vars

\* the fields of a node that the claims compare; a creation time counts by its
\* instant, whether it is held as a Date or as the ISO string of the stored item
Core(v) ==
    [id |-> v.id, type |-> v.type, ms |-> v.timestamp.ms, imageUrl |-> v.imageUrl,
     azureBlobPath |-> v.azureBlobPath, parent |-> v.parent]
CoreSeq(vs) == [i \in 1..Len(vs) |-> Core(vs[i])]

\* C21: no step changes a field of a committed node: a commit of addVersion
\* leaves the nodes before the new one as they were, the merge of the stored
\* item brings back the stored nodes, every other step leaves the nodes that
\* survive it as they were and in their order, and the stored item always holds
\* the nodes as they are.
C21_NodesAreImmutable ==
    [][/\ IF last'.op = "addVersion"
          THEN CoreSeq(SubSeq(versions', 1, Len(versions') - 1)) = CoreSeq(versions)
          ELSE IF last'.op = "hydrate" /\ persisted.status = "ok"
          THEN CoreSeq(versions') = CoreSeq(persisted.versions)
          ELSE CoreSeq(versions') =
                 CoreSeq(SelectSeq(versions, LAMBDA v : v.id \in Ids(versions')))
       /\ (hpc' # "boot" /\ persisted'.status = "ok") =>
             CoreSeq(persisted'.versions) = CoreSeq(versions')]_vars

C21_Witness ==
    /\ last.op = "rehydrated"
    /\ last.upload = "none"
    /\ Len(versions) = 2
    /\ versions[1].azureBlobPath # NoKey
    /\ versions[1].timestamp.ms < now

\* C22: a node committed from a blob: draft without blob path has a blob path
\* exactly when its upload succeeded, and then its image URL is the URL the
\* upload returned for that path; no node whose blob path the store set has a
\* blob: image URL.
C22_KeyIffUploaded ==
    /\ (AddReturned /\ last.draft.imageUrl.scheme = "blob" /\ last.draft.azureBlobPath = NoKey) =>
          /\ versions # <<>>
          /\ (LastVersion.azureBlobPath # NoKey) <=> (last.upload = "ok")
          /\ last.upload = "ok" =>
                LastVersion.imageUrl = [scheme |-> "https", path |-> LastVersion.azureBlobPath]
    /\ \A i \in 1..Len(versions) :
          versions[i].azureBlobPath \notin {NoKey, ExternalKey} =>
              ~StartsWithBlob(versions[i].imageUrl)

C22_Witness ==
    /\ AddReturned
    /\ last.upload = "ok"
    /\ last.draft.imageUrl = BlobUrl
    /\ last.draft.azureBlobPath = NoKey
    /\ LastVersion.imageUrl.scheme = "https"
    /\ LastVersion.parent # NoId

\* C23: two nodes whose blob paths come from uploads never have the same blob
\* path.
C23_RemoteKeysDiffer ==
    \A i, j \in 1..Len(versions) :
        (i # j /\ versions[i].azureBlobPath \notin {NoKey, ExternalKey}) =>
            versions[i].azureBlobPath # versions[j].azureBlobPath

\* C24: a restart finds the stored item equal to the state it ends (nodes,
\* cursor, branch root), keeps it, and the hydration of an item without blob:
\* URLs gives that state back with isProcessing false and no error.
C24_RoundTrip ==
    [][/\ last'.op = "restart" =>
             /\ persisted.status = "ok" =>
                   /\ CoreSeq(persisted.versions) = CoreSeq(versions)
                   /\ persisted.currentVersion = currentVersion
                   /\ persisted.branchRootId = branchRootId
             /\ persisted.status # "ok" =>
                   /\ versions = <<>>
                   /\ currentVersion = NoId
                   /\ branchRootId = NoId
             /\ persisted' = persisted
       /\ (hpc # "done" /\ hpc' \in {"merged", "flagged", "done"} /\ persisted.status = "ok"
              /\ ~HasBlob(persisted.versions)) =>
             /\ persisted' = persisted
             /\ CoreSeq(versions') = CoreSeq(persisted.versions)
             /\ currentVersion' = persisted.currentVersion
             /\ branchRootId' = persisted.branchRootId
             /\ ~isProcessing'
             /\ error' = NoError]_vars

C24_Witness ==
    /\ last.op = "rehydrated"
    /\ last.upload = "none"
    /\ Len(versions) = 2
    /\ currentVersion = versions[2].id
    /\ branchRootId # NoId
    /\ versions[2].parent # NoId

\* C25: whenever the cursor is the id of a node, getCurrentVersionHistory()
\* returns and that node is in the list it returns.
C25_CursorInHistory ==
    (Ready /\ getCurrentVersion(versions, currentVersion).id # NoId) =>
        LET history == getCurrentVersionHistory(versions, currentVersion, branchRootId)
        IN /\ history.returns
           /\ \E i \in 1..Len(history.value) :
                 history.value[i] = getCurrentVersion(versions, currentVersion)

\* C26: the branch root is null or the id of a node of the version list, and
\* after deleteVersion(id) getCurrentRootId() is not id.
C26_BranchRootExists ==
    /\ branchRootId = NoId \/ branchRootId \in Ids(versions)
    /\ last.op = "deleteVersion" =>
          getCurrentRootId(versions, currentVersion, branchRootId) # last.vid

\* C27: isProcessing is true whenever an addVersion or a deleteVersion is in
\* flight.
C27_ProcessingWhileInFlight ==
    (InFlight("add") \cup InFlight("del")) # {} => isProcessing

\* C28: when deleteVersion has had its node's remote object deleted, no node
\* that stays in the version list has the URL of that object as its image URL.
C28_DeleteKeepsOthersValid ==
    [][(last'.op = "deleteVersion" /\ last'.upload = "ok") =>
          \A i \in 1..Len(versions') :
              versions'[i].imageUrl.scheme = "https" =>
                  versions'[i].imageUrl.path # Find(versions, last'.vid).azureBlobPath]_vars

\* C29: loadVersionFromAzure(id) of a node with a blob path returns the copy
\* with the downloaded image unless the fetch throws or the storage cannot
\* serve the object.
C29_LoadReturnsCopy ==
    (last.op = "loadVersionFromAzure" /\ last.upload \notin {"none", "throws", "failed"}) =>
        /\ last.upload = "ok"
        /\ last.draft.imageUrl.scheme = "data"

\* C30: a call of getCurrentVersion, getVersionHistory, getCurrentRootId,
\* getCurrentVersionHistory or loadVersionFromAzure leaves the version list and
\* its order, the cursor, the branch root, isProcessing, the error slot and
\* isHydrated as they were, whatever the download does.
C30_ReadsChangeNothing ==
    [][last'.op \in {"getCurrentVersion", "getVersionHistory", "getCurrentRootId",
                     "getCurrentVersionHistory", "loadVersionStart", "loadVersionFromAzure"} =>
          /\ versions' = versions
          /\ currentVersion' = currentVersion
          /\ branchRootId' = branchRootId
          /\ isProcessing' = isProcessing
          /\ error' = error
          /\ isHydrated' = isHydrated
          /\ persisted' = persisted]_vars

C30_Witness ==
    /\ last.op = "getCurrentVersionHistory"
    /\ last.vid > 0
    /\ Len(versions) = 2
    /\ versions[1].timestamp.ms > versions[2].timestamp.ms

====
